---------------------------- MODULE Spec2Model ----------------------------
(***************************************************************************)
(* Model of the status-LED engine of GAssist (src/led.py, class LED).      *)
(*                                                                         *)
(* Two threads run over the LED object: the caller, which executes         *)
(* start(), stop() and set_state(token) one call at a time, and the        *)
(* animator thread running LED._animate.  Every access to a field that     *)
(* both threads use (running, state, base_red, base_green, base_blue) is   *)
(* one atomic step, so the interleavings of the model are those the        *)
(* interpreter can produce by switching threads between two accesses.      *)
(* Fields used by the animator alone (iterator, sleep) are assigned in the *)
(* step of the comparison that selects the branch.                         *)
(*                                                                         *)
(* Colours written to the RGB driver are kept exactly, as numerators over  *)
(* max_brightness (255): the colour (r,g,b) is <<255*r, 255*g, 255*b>> and *)
(* base * (v / 255) is <<base*v, ...>>.                                    *)
(***************************************************************************)
EXTENDS Integers, Sequences, FiniteSets, TLC

\* ------------------------------------------------------------------ bounds
\* number of set_state calls the caller makes
MaxCalls == 2
\* number of driver writes of the animator that raise an I/O error
MaxFaults == 1
\* number of set_state calls in the specifications that take every token of
\* the chain as input or that are checked for liveness
MaxFewCalls == 1
\* number of start_thread calls made on Core
MaxStarts == 3
\* largest interval_seconds and length_seconds TimeLapse.run computes
MaxInterval == 2
MaxLength == 4

\* --------------------------------------------------------- program constants
max_pwm == 100
max_brightness == 255
\* time.sleep(0.25) of the idle branch, in hundredths of a second
IdleSleep == 25

NoToken == "None"

\* the tokens of the if/elif chain of _animate, in the order of the chain
Chain ==
  << "on-green", "on-red", "off", "blink", "blink-3", "beacon", "beacon-dark",
     "decay", "pulse-slow", "pulse-slow-dark", "pulse-quick" >>

ChainLen == Len(Chain)

ValidTokens == { Chain[i] : i \in 1..ChainLen }

StaticTokens == { "on-green", "on-red", "off" }

\* the tokens the caller passes to set_state in this model
InputTokens == { "off", "on-red", "on-green", "blink", "blink-3", "bogus" }

\* ------------------------------------------------------------ pattern library
\* Python's range(a, b, step) as a sequence
RECURSIVE PyRange(_, _, _)
PyRange(a, b, step) ==
  IF (step > 0 /\ a >= b) \/ (step < 0 /\ a <= b) \/ step = 0
  THEN << >>
  ELSE << a >> \o PyRange(a + step, b, step)

\* [v] * n
Repeat(v, n) == [ i \in 1..n |-> v ]

\* frame lists whose ranges stop one step early at the top of the ramp
Frames_ShortRamp(tok) ==
  CASE tok = "blink" -> << 0, max_pwm >>
    [] tok = "blink-3" ->
         << 0, max_pwm >> \o << 0, max_pwm >> \o << 0, max_pwm >> \o << 0, 0 >>
    [] tok = "beacon" ->
         Repeat(30, 100) \o Repeat(max_pwm, 8) \o PyRange(max_pwm - 5, 30, -5)
    [] tok = "beacon-dark" ->
         Repeat(0, 10) \o PyRange(0, 30, 3) \o PyRange(30 - 3, 0, -3)
    [] tok = "decay" -> PyRange(max_pwm - 2, 0, -2)
    [] tok = "pulse-slow" ->
         PyRange(0, max_pwm, 2) \o PyRange(max_pwm - 2, 0, -2)
    [] tok = "pulse-slow-dark" -> PyRange(10, 80, 2) \o PyRange(80 - 2, 10, -2)
    [] tok = "pulse-quick" ->
         PyRange(0, max_pwm, 5) \o PyRange(max_pwm - 5, 0, -5)
    [] OTHER -> << >>

\* the list handed to itertools.cycle in the branch of each cyclic token
Frames(tok) ==
  CASE tok = "blink" -> << 0, max_pwm >>
    [] tok = "blink-3" ->
         << 0, max_pwm >> \o << 0, max_pwm >> \o << 0, max_pwm >> \o << 0, 0 >>
    [] tok = "beacon" ->
         Repeat(30, 100) \o Repeat(max_pwm, 8) \o PyRange(max_pwm, 30, -5)
    [] tok = "beacon-dark" ->
         Repeat(0, 10) \o PyRange(0, 30, 3) \o PyRange(30, 0, -3)
    [] tok = "decay" -> PyRange(max_pwm, 0, -2)
    [] tok = "pulse-slow" -> PyRange(0, max_pwm, 2) \o PyRange(max_pwm, 0, -2)
    [] tok = "pulse-slow-dark" -> PyRange(10, 80, 2) \o PyRange(80, 10, -2)
    [] tok = "pulse-quick" -> PyRange(0, max_pwm, 5) \o PyRange(max_pwm, 0, -5)
    [] OTHER -> << >>

\* the frame lists of the pattern table of the specification (section 4.2),
\* written with the end points the table gives
Up(a, b, step) == [ i \in 1..((b - a) \div step + 1) |-> a + (i - 1) * step ]
Down(a, b, step) == [ i \in 1..((a - b) \div step + 1) |-> a - (i - 1) * step ]

TableFrames(tok) ==
  CASE tok = "blink" -> << 0, 100 >>
    [] tok = "blink-3" -> << 0, 100, 0, 100, 0, 100, 0, 0 >>
    [] tok = "beacon" -> Repeat(30, 100) \o Repeat(100, 8) \o Down(100, 35, 5)
    [] tok = "beacon-dark" -> Repeat(0, 10) \o Up(0, 27, 3) \o Down(30, 3, 3)
    [] tok = "decay" -> Down(100, 2, 2)
    [] tok = "pulse-slow" -> Up(0, 98, 2) \o Down(100, 2, 2)
    [] tok = "pulse-slow-dark" -> Up(10, 78, 2) \o Down(80, 12, 2)
    [] tok = "pulse-quick" -> Up(0, 95, 5) \o Down(100, 5, 5)
    [] OTHER -> << >>

\* self.sleep of each branch, in hundredths of a second
Tick(tok) ==
  CASE tok = "blink" -> 50
    [] tok = "blink-3" -> 25
    [] tok \in { "beacon", "beacon-dark", "decay", "pulse-quick" } -> 5
    [] tok \in { "pulse-slow", "pulse-slow-dark" } -> 10
    [] OTHER -> 0

\* the duty a static branch passes to pwm.ChangeDutyCycle
StaticDuty(tok) == IF tok = "off" THEN 0 ELSE max_pwm

\* a colour given by its three channels, as numerators over max_brightness
Color(r, g, b) == << r * max_brightness, g * max_brightness, b * max_brightness >>

Min(a, b) == IF a < b THEN a ELSE b

NoIterator == [ tok |-> NoToken, pos |-> 0 ]

\* itertools.cycle(Frames(tok)) before its first next()
Cycle(tok) == [ tok |-> tok, pos |-> 0 ]

\* the value next(it) returns, and the iterator after it
NextValue(it) == Frames(it.tok)[it.pos + 1]
Advance(it) == [ it EXCEPT !.pos = (it.pos + 1) % Len(Frames(it.tok)) ]

\* ---------------------------------------------------------------------- state
VARIABLES
  \* fields of LED
  running, state, last_known_state, iterator, sleep,
  base_red, base_green, base_blue,
  \* the Thread object, the PWM output and the BlinkStick
  animator,      \* "new", "alive" or "dead"
  pwm,           \* [on, duty]: started or not, and the duty cycle last set
  gpio_low,      \* GPIO.output(channel, LOW) was the last act on the line
  rgb,           \* the colour last written by bstick.set_color
  \* position and locals of the animator thread
  apc, k, branch, new_value, scale, cr, cg, cb,
  \* position of the caller thread
  cpc,
  \* history
  nCalls,        \* set_state calls made so far; the call's number
  slotId,        \* number of the call that wrote the token now in state
  slotRead,      \* the animator has accessed state since that write
  superseded,    \* calls whose valid token a call with another valid token
                 \* overwrote before any such access
  takeId,        \* number of the call whose token the animator resolved last
  iterId,        \* number of the call whose pattern iterator replays
  rendered,      \* calls whose pattern has had a driver write
  wrPwm, wrRgb,  \* driver writes of the animator since its last match, 2 = more
  faults,        \* driver writes that raised
  warnings,      \* "unsupported state" warnings logged
  raised,        \* the call of the caller that raised last, or "none"
  started,       \* a start() call has been made
  stopCalled,    \* a stop() call has been made
  stopReturned,  \* a stop() call has returned normally
  redundantStart, \* the start() in progress follows a start() with no stop()
  iterAtTake,    \* iterator when the animator found a token in state
  unknownTake,   \* that token ended in the else branch; until the next sleep
  pendingAtStart, \* number of the call whose token was pending when start()
                 \* was called on the new engine, 0 if none was
  unknownCalls,  \* set_state calls made with a token outside ValidTokens
  frameNo,       \* frames written since the iterator was created, modulo the
                 \* length of the pattern's frame list in the pattern table
  spawned,       \* threads started by animator.start()
  \* the control process main()
  mpc,           \* position of main(), "none" when the caller is not main()
  lastIgnored,   \* the last line main() read and dropped, "none" if none
  cleaned,       \* GPIO.cleanup() has run
  \* fields of Core (src/core.py) and its threads
  core_running,  \* Core.running
  main_thread,   \* Core.main_thread: 0 for None, else the number of a thread
  camera,        \* Core.camera is not None
  workers,       \* position of each thread started on Core.run_loop
  kpc,           \* position of the caller of start_thread and stop_thread
  nStarts,       \* start_thread calls made so far
  coreRaised,    \* the call on Core that raised last, or "none"
  stopEnded,     \* a stop_thread call made after a start_thread has ended
  \* TimeLapse.run and Core.take_timelapse
  tpc,           \* position of the call
  interval_seconds, length_seconds,
  length0,       \* length_seconds as passed to take_timelapse
  captures,      \* photos the capture loop has taken
  completions    \* "Time lapse is complete." announcements made

code == << running, state, last_known_state, iterator, sleep,
           base_red, base_green, base_blue, animator, pwm, gpio_low, rgb >>
locals == << apc, k, branch, new_value, scale, cr, cg, cb >>
take7 == << iterAtTake, unknownTake >>
hist2 == << pendingAtStart, unknownCalls, frameNo, spawned >>
mainv == << mpc, lastIgnored, cleaned >>
history == << nCalls, slotId, slotRead, superseded, takeId, iterId, rendered,
              wrPwm, wrRgb, faults, warnings, raised, started, stopCalled,
              stopReturned, redundantStart, take7, hist2, mainv >>
tlv == << tpc, interval_seconds, length_seconds, length0, captures,
         completions >>
corev == << core_running, main_thread, camera, workers, kpc, nStarts,
           coreRaised, stopEnded, tlv >>
vars == << code, locals, cpc, history, corev >>

\* LED.__init__
InitLED ==
  /\ running = FALSE
  /\ state = NoToken
  /\ last_known_state = NoToken
  /\ iterator = NoIterator
  /\ sleep = 0
  /\ base_red = 255 /\ base_green = 0 /\ base_blue = 0
  /\ animator = "new"
  /\ pwm = [ on |-> FALSE, duty |-> 0 ]
  /\ gpio_low = FALSE
  /\ rgb = Color(0, 0, 0)
  /\ apc = "not_started" /\ k = 0 /\ branch = NoToken
  /\ new_value = 0 /\ scale = 0 /\ cr = 0 /\ cg = 0 /\ cb = 0
  /\ cpc = "idle"
  /\ nCalls = 0 /\ slotId = 0 /\ slotRead = FALSE /\ superseded = {}
  /\ takeId = 0 /\ iterId = 0 /\ rendered = {}
  /\ wrPwm = 0 /\ wrRgb = 0 /\ faults = 0 /\ warnings = 0
  /\ raised = "none" /\ started = FALSE /\ stopCalled = FALSE
  /\ stopReturned = FALSE /\ redundantStart = FALSE
  /\ iterAtTake = NoIterator /\ unknownTake = FALSE
  /\ pendingAtStart = 0 /\ unknownCalls = 0 /\ frameNo = 0 /\ spawned = 0
  /\ lastIgnored = "none" /\ cleaned = FALSE

\* Core.__init__, with no call of TimeLapse.run made
InitCore ==
  /\ core_running = FALSE
  /\ main_thread = 0
  /\ camera = FALSE
  /\ workers = [ w \in 1..MaxStarts |-> "none" ]
  /\ kpc = "idle" /\ nStarts = 0 /\ coreRaised = "none" /\ stopEnded = FALSE
  /\ tpc = "idle" /\ interval_seconds = 0 /\ length_seconds = 0
  /\ length0 = 0 /\ captures = 0 /\ completions = 0

\* a constructed engine whose caller is any client of the class, and a
\* constructed Core
Init == InitLED /\ InitCore /\ mpc = "none"

Bump(n) == Min(n + 1, 2)

\* -------------------------------------------------------- caller: set_state
\* set_state that keeps a token still pending instead of overwriting it
SetState_KeepsFirst(t) ==
  /\ cpc = "idle"
  /\ nCalls < MaxCalls
  /\ state' = IF state = NoToken THEN t ELSE state
  /\ last_known_state' = t
  /\ nCalls' = nCalls + 1
  /\ slotId' = IF state = NoToken THEN nCalls + 1 ELSE slotId
  /\ slotRead' = IF state = NoToken THEN FALSE ELSE slotRead
  /\ superseded' = IF ~slotRead /\ state # t /\ { state, t } \subseteq ValidTokens
                   THEN superseded \cup { slotId } ELSE superseded
  /\ raised' = "none"
  /\ cpc' = "ss_red"
  /\ unknownCalls' = IF t \in ValidTokens THEN unknownCalls ELSE unknownCalls + 1
  /\ UNCHANGED << running, iterator, sleep, base_red, base_green, base_blue,
                  animator, pwm, gpio_low, rgb, locals, takeId, iterId,
                  rendered, wrPwm, wrRgb, faults, warnings, started,
                  stopCalled, stopReturned, redundantStart, take7,
                  pendingAtStart, frameNo, spawned, mainv, corev >>

\* self.state = state; self.last_known_state = state (nothing reads
\* last_known_state, so its assignment shares the step)
SetState(t) ==
  /\ cpc = "idle"
  /\ nCalls < MaxCalls
  /\ state' = t
  /\ last_known_state' = t
  /\ nCalls' = nCalls + 1
  /\ slotId' = nCalls + 1
  /\ slotRead' = FALSE
  /\ superseded' = IF ~slotRead /\ state # t /\ { state, t } \subseteq ValidTokens
                   THEN superseded \cup { slotId } ELSE superseded
  /\ raised' = "none"
  /\ cpc' = "ss_red"
  /\ unknownCalls' = IF t \in ValidTokens THEN unknownCalls ELSE unknownCalls + 1
  /\ UNCHANGED << running, iterator, sleep, base_red, base_green, base_blue,
                  animator, pwm, gpio_low, rgb, locals, takeId, iterId,
                  rendered, wrPwm, wrRgb, faults, warnings, started,
                  stopCalled, stopReturned, redundantStart, take7,
                  pendingAtStart, frameNo, spawned, mainv, corev >>

\* self.base_red = 255
SetStateRed ==
  /\ cpc = "ss_red"
  /\ base_red' = 255
  /\ cpc' = "ss_green"
  /\ UNCHANGED << running, state, last_known_state, iterator, sleep,
                  base_green, base_blue, animator, pwm, gpio_low, rgb,
                  locals, history, corev >>

\* self.base_green = 0
SetStateGreen ==
  /\ cpc = "ss_green"
  /\ base_green' = 0
  /\ cpc' = "ss_blue"
  /\ UNCHANGED << running, state, last_known_state, iterator, sleep,
                  base_red, base_blue, animator, pwm, gpio_low, rgb,
                  locals, history, corev >>

\* self.base_blue = 0, and set_state returns
SetStateBlue ==
  /\ cpc = "ss_blue"
  /\ base_blue' = 0
  /\ cpc' = "idle"
  /\ UNCHANGED << running, state, last_known_state, iterator, sleep,
                  base_red, base_green, animator, pwm, gpio_low, rgb,
                  locals, history, corev >>

\* ------------------------------------------------------------ caller: start
\* self.pwm.start(0)
StartPwm ==
  /\ cpc = "idle"
  /\ pwm' = [ on |-> TRUE, duty |-> 0 ]
  /\ gpio_low' = FALSE
  /\ started' = TRUE
  /\ redundantStart' = (started /\ ~stopCalled)
  /\ raised' = "none"
  /\ pendingAtStart' = IF animator = "new" THEN slotId ELSE pendingAtStart
  /\ cpc' = "start_running"
  /\ UNCHANGED << running, state, last_known_state, iterator, sleep,
                  base_red, base_green, base_blue, animator, rgb, locals,
                  nCalls, slotId, slotRead, superseded, takeId, iterId,
                  rendered, wrPwm, wrRgb, faults, warnings, stopCalled,
                  stopReturned, take7,
                  unknownCalls, frameNo, spawned, mainv, corev >>

\* a start() that also empties the pending slot
StartRunning_ResetsState ==
  /\ cpc = "start_running"
  /\ running' = TRUE
  /\ state' = NoToken
  /\ slotId' = 0
  /\ cpc' = "start_animator"
  /\ UNCHANGED << last_known_state, iterator, sleep, base_red,
                  base_green, base_blue, animator, pwm, gpio_low, rgb,
                  locals, nCalls, slotRead, superseded, takeId, iterId,
                  rendered, wrPwm, wrRgb, faults, warnings, raised, started,
                  stopCalled, stopReturned, redundantStart, take7,
                  hist2, mainv, corev >>

\* self.running = True
StartRunning ==
  /\ cpc = "start_running"
  /\ running' = TRUE
  /\ cpc' = "start_animator"
  /\ UNCHANGED << state, last_known_state, iterator, sleep, base_red,
                  base_green, base_blue, animator, pwm, gpio_low, rgb,
                  locals, history, corev >>

\* a start() that runs a further thread on every call
StartAnimator_SecondThread ==
  /\ cpc = "start_animator"
  /\ animator' = "alive"
  /\ apc' = IF animator = "alive" THEN apc ELSE "while"
  /\ raised' = "none"
  /\ spawned' = spawned + 1
  /\ redundantStart' = FALSE
  /\ cpc' = "idle"
  /\ UNCHANGED << running, state, last_known_state, iterator, sleep,
                  base_red, base_green, base_blue, pwm, gpio_low, rgb,
                  k, branch, new_value, scale, cr, cg, cb,
                  nCalls, slotId, slotRead, superseded, takeId, iterId,
                  rendered, wrPwm, wrRgb, faults, warnings, started,
                  stopCalled, stopReturned, take7,
                  pendingAtStart, unknownCalls, frameNo, mainv, corev >>

\* a start() that runs a fresh thread once the previous one has ended
StartAnimator_Restarts ==
  /\ cpc = "start_animator"
  /\ IF animator \in { "new", "dead" }
     THEN /\ animator' = "alive"
          /\ apc' = "while"
          /\ raised' = "none"
          /\ spawned' = spawned + 1
     ELSE /\ raised' = "start"
          /\ UNCHANGED << animator, apc, spawned >>
  /\ redundantStart' = FALSE
  /\ cpc' = "idle"
  /\ UNCHANGED << running, state, last_known_state, iterator, sleep,
                  base_red, base_green, base_blue, pwm, gpio_low, rgb,
                  k, branch, new_value, scale, cr, cg, cb,
                  nCalls, slotId, slotRead, superseded, takeId, iterId,
                  rendered, wrPwm, wrRgb, faults, warnings, started,
                  stopCalled, stopReturned, take7,
                  pendingAtStart, unknownCalls, frameNo, mainv, corev >>

\* self.animator.start(): a Thread starts once; a second start() of the same
\* Thread object raises RuntimeError, which leaves LED.start
StartAnimator ==
  /\ cpc = "start_animator"
  /\ IF animator = "new"
     THEN /\ animator' = "alive"
          /\ apc' = "while"
          /\ raised' = "none"
          /\ spawned' = spawned + 1
     ELSE /\ raised' = "start"
          /\ UNCHANGED << animator, apc, spawned >>
  /\ redundantStart' = FALSE
  /\ cpc' = "idle"
  /\ UNCHANGED << running, state, last_known_state, iterator, sleep,
                  base_red, base_green, base_blue, pwm, gpio_low, rgb,
                  k, branch, new_value, scale, cr, cg, cb,
                  nCalls, slotId, slotRead, superseded, takeId, iterId,
                  rendered, wrPwm, wrRgb, faults, warnings, started,
                  stopCalled, stopReturned, take7,
                  pendingAtStart, unknownCalls, frameNo, mainv, corev >>

\* ------------------------------------------------------------- caller: stop
\* self.running = False
StopRunning ==
  /\ cpc = "idle"
  /\ running' = FALSE
  /\ stopCalled' = TRUE
  /\ raised' = "none"
  /\ cpc' = "stop_join"
  /\ UNCHANGED << state, last_known_state, iterator, sleep, base_red,
                  base_green, base_blue, animator, pwm, gpio_low, rgb,
                  locals, nCalls, slotId, slotRead, superseded, takeId,
                  iterId, rendered, wrPwm, wrRgb, faults, warnings, started,
                  stopReturned, redundantStart, take7,
                  hist2, mainv, corev >>

\* a join that returns while the thread is still running
StopJoin_NoWait ==
  /\ cpc = "stop_join"
  /\ IF animator = "new"
     THEN raised' = "stop" /\ cpc' = "idle"
     ELSE raised' = "none" /\ cpc' = "stop_pwm"
  /\ UNCHANGED << code, locals, nCalls, slotId, slotRead, superseded, takeId,
                  iterId, rendered, wrPwm, wrRgb, faults, warnings, started,
                  stopCalled, stopReturned, redundantStart, take7,
                  hist2, mainv, corev >>

\* self.animator.join(): raises RuntimeError for a Thread that was never
\* started, returns once a started Thread has ended, and blocks until then
StopJoin ==
  /\ cpc = "stop_join"
  /\ animator # "alive"
  /\ IF animator = "new"
     THEN raised' = "stop" /\ cpc' = "idle"
     ELSE raised' = "none" /\ cpc' = "stop_pwm"
  /\ UNCHANGED << code, locals, nCalls, slotId, slotRead, superseded, takeId,
                  iterId, rendered, wrPwm, wrRgb, faults, warnings, started,
                  stopCalled, stopReturned, redundantStart, take7,
                  hist2, mainv, corev >>

\* self.pwm.stop()
StopPwm ==
  /\ cpc = "stop_pwm"
  /\ pwm' = [ pwm EXCEPT !.on = FALSE ]
  /\ cpc' = "stop_gpio"
  /\ UNCHANGED << running, state, last_known_state, iterator, sleep,
                  base_red, base_green, base_blue, animator, gpio_low, rgb,
                  locals, history, corev >>

\* GPIO.output(self.channel, GPIO.LOW), and stop returns
StopGpio ==
  /\ cpc = "stop_gpio"
  /\ gpio_low' = TRUE
  /\ stopReturned' = TRUE
  /\ cpc' = "idle"
  /\ UNCHANGED << running, state, last_known_state, iterator, sleep,
                  base_red, base_green, base_blue, animator, pwm, rgb,
                  locals, nCalls, slotId, slotRead, superseded, takeId,
                  iterId, rendered, wrPwm, wrRgb, faults, warnings, raised,
                  started, stopCalled, redundantStart, take7,
                  hist2, mainv, corev >>

\* ------------------------------------------------------- animator: _animate
Alive == animator = "alive"

\* a loop that never tests running: while True
AnimWhile_IgnoresRunning ==
  /\ animator = "alive" /\ apc = "while"
  /\ apc' = "if_state"
  /\ UNCHANGED << code, k, branch, new_value, scale, cr, cg, cb, cpc, history, corev >>

\* while self.running:
AnimWhile ==
  /\ Alive /\ apc = "while"
  /\ IF running
     THEN apc' = "if_state" /\ UNCHANGED animator
     ELSE apc' = "returned" /\ animator' = "dead"
  /\ UNCHANGED << running, state, last_known_state, iterator, sleep,
                  base_red, base_green, base_blue, pwm, gpio_low, rgb,
                  k, branch, new_value, scale, cr, cg, cb, cpc, history, corev >>

\* if self.state:
AnimIfState ==
  /\ Alive /\ apc = "if_state"
  /\ IF state # NoToken
     THEN apc' = "elif" /\ k' = 1
     ELSE apc' = "if_iterator" /\ k' = 0
  /\ slotRead' = TRUE
  /\ iterAtTake' = IF state # NoToken THEN iterator ELSE NoIterator
  /\ unknownTake' = FALSE
  /\ UNCHANGED << code, branch, new_value, scale, cr, cg, cb, cpc,
                  nCalls, slotId, superseded, takeId, iterId, rendered,
                  wrPwm, wrRgb, faults, warnings, raised, started,
                  stopCalled, stopReturned, redundantStart,
                  hist2, mainv, corev >>

\* a branch that keeps the running iterator when its token is matched again
BranchIterator_KeepsCursor(tok) ==
  IF tok \in StaticTokens THEN NoIterator
  ELSE IF iterator.tok = tok THEN iterator ELSE Cycle(tok)

\* what the branch of token tok assigns to self.iterator
BranchIterator(tok) == IF tok \in StaticTokens THEN NoIterator ELSE Cycle(tok)

\* [el]if self.state == Chain[k]: one comparison of the chain, reading
\* self.state anew; on a match, the branch's assignments to iterator and sleep
AnimElif ==
  /\ Alive /\ apc = "elif"
  /\ slotRead' = TRUE
  /\ IF state = Chain[k]
     THEN /\ iterator' = BranchIterator(Chain[k])
          /\ sleep' = Tick(Chain[k])
          /\ branch' = Chain[k]
          /\ takeId' = slotId
          /\ iterId' = IF Chain[k] \in StaticTokens THEN 0 ELSE slotId
          /\ wrPwm' = 0 /\ wrRgb' = 0
          /\ apc' = IF Chain[k] \in StaticTokens THEN "pwm_static" ELSE "clear"
          /\ k' = 0
     ELSE /\ apc' = IF k < ChainLen THEN "elif" ELSE "warn"
          /\ k' = IF k < ChainLen THEN k + 1 ELSE 0
          /\ UNCHANGED << iterator, sleep, branch, takeId, iterId,
                          wrPwm, wrRgb >>
  /\ frameNo' = IF state = Chain[k] THEN 0 ELSE frameNo
  /\ UNCHANGED << running, state, last_known_state, base_red, base_green,
                  base_blue, animator, pwm, gpio_low, rgb, new_value, scale,
                  cr, cg, cb, cpc, nCalls, slotId, superseded, rendered,
                  faults, warnings, raised, started, stopCalled,
                  stopReturned, redundantStart, take7,
                  pendingAtStart, unknownCalls, spawned, mainv, corev >>

\* an else branch that also drops the iterator, as the branch off does
AnimWarn_DropsIterator ==
  /\ animator = "alive" /\ apc = "warn"
  /\ warnings' = warnings + 1
  /\ takeId' = slotId
  /\ slotRead' = TRUE
  /\ unknownTake' = TRUE
  /\ iterator' = NoIterator
  /\ apc' = "clear"
  /\ UNCHANGED << running, state, last_known_state, sleep, base_red,
                  base_green, base_blue, animator, pwm, gpio_low, rgb,
                  k, branch, new_value, scale, cr, cg, cb, cpc,
                  nCalls, slotId, superseded, iterId, rendered, wrPwm, wrRgb,
                  faults, raised, started, stopCalled, stopReturned,
                  redundantStart, iterAtTake,
                  hist2, mainv, corev >>

\* else: logger.warning("unsupported state: %s", self.state)
AnimWarn ==
  /\ Alive /\ apc = "warn"
  /\ warnings' = warnings + 1
  /\ takeId' = slotId
  /\ slotRead' = TRUE
  /\ unknownTake' = TRUE
  /\ apc' = "clear"
  /\ UNCHANGED << code, k, branch, new_value, scale, cr, cg, cb, cpc,
                  nCalls, slotId, superseded, iterId, rendered, wrPwm, wrRgb,
                  faults, raised, started, stopCalled, stopReturned,
                  redundantStart, iterAtTake,
                  hist2, mainv, corev >>

\* self.pwm.ChangeDutyCycle(...) of the branches on-green, on-red and off
AnimPwmStatic ==
  /\ Alive /\ apc = "pwm_static"
  /\ pwm' = [ pwm EXCEPT !.duty = StaticDuty(branch) ]
  /\ wrPwm' = Bump(wrPwm)
  /\ rendered' = rendered \cup { takeId }
  /\ apc' = CASE branch = "on-green" -> "set_base_red"
              [] branch = "on-red" -> "read_red"
              [] OTHER -> "rgb_off"
  /\ scale' = IF branch = "off" THEN 0 ELSE max_brightness
  /\ UNCHANGED << running, state, last_known_state, iterator, sleep,
                  base_red, base_green, base_blue, animator, gpio_low, rgb,
                  k, branch, new_value, cr, cg, cb, cpc,
                  nCalls, slotId, slotRead, superseded, takeId, iterId,
                  wrRgb, faults, warnings, raised, started, stopCalled,
                  stopReturned, redundantStart, take7,
                  hist2, mainv, corev >>

\* self.base_red = 0 (on-green)
AnimSetBaseRed ==
  /\ Alive /\ apc = "set_base_red"
  /\ base_red' = 0
  /\ apc' = "set_base_green"
  /\ UNCHANGED << running, state, last_known_state, iterator, sleep,
                  base_green, base_blue, animator, pwm, gpio_low, rgb,
                  k, branch, new_value, scale, cr, cg, cb, cpc, history, corev >>

\* self.base_green = 190 (on-green)
AnimSetBaseGreen ==
  /\ Alive /\ apc = "set_base_green"
  /\ base_green' = 190
  /\ apc' = "set_base_blue"
  /\ UNCHANGED << running, state, last_known_state, iterator, sleep,
                  base_red, base_blue, animator, pwm, gpio_low, rgb,
                  k, branch, new_value, scale, cr, cg, cb, cpc, history, corev >>

\* self.base_blue = 0 (on-green)
AnimSetBaseBlue ==
  /\ Alive /\ apc = "set_base_blue"
  /\ base_blue' = 0
  /\ apc' = "read_red"
  /\ UNCHANGED << running, state, last_known_state, iterator, sleep,
                  base_red, base_green, animator, pwm, gpio_low, rgb,
                  k, branch, new_value, scale, cr, cg, cb, cpc, history, corev >>

\* the argument red= of set_color: self.base_red, times brightness in a frame
AnimReadRed ==
  /\ Alive /\ apc = "read_red"
  /\ cr' = base_red * scale
  /\ apc' = "read_green"
  /\ UNCHANGED << code, k, branch, new_value, scale, cg, cb, cpc, history, corev >>

\* the argument green= of set_color
AnimReadGreen ==
  /\ Alive /\ apc = "read_green"
  /\ cg' = base_green * scale
  /\ apc' = "read_blue"
  /\ UNCHANGED << code, k, branch, new_value, scale, cr, cb, cpc, history, corev >>

\* the argument blue= of set_color
AnimReadBlue ==
  /\ Alive /\ apc = "read_blue"
  /\ cb' = base_blue * scale
  /\ apc' = "set_color"
  /\ UNCHANGED << code, k, branch, new_value, scale, cr, cg, cpc, history, corev >>

\* self.bstick.set_color(red=..., green=..., blue=...) of on-green and on-red
\* (then self.state = None follows) and of a frame (then time.sleep follows)
AnimSetColor ==
  /\ Alive /\ apc = "set_color"
  /\ rgb' = << cr, cg, cb >>
  /\ wrRgb' = Bump(wrRgb)
  /\ apc' = IF iterator = NoIterator THEN "clear" ELSE "sleep"
  /\ cr' = 0 /\ cg' = 0 /\ cb' = 0 /\ scale' = 0 /\ new_value' = 0
  /\ UNCHANGED << running, state, last_known_state, iterator, sleep,
                  base_red, base_green, base_blue, animator, pwm, gpio_low,
                  k, branch, cpc, nCalls, slotId, slotRead, superseded,
                  takeId, iterId, rendered, wrPwm, faults, warnings, raised,
                  started, stopCalled, stopReturned, redundantStart, take7,
                  hist2, mainv, corev >>

\* self.bstick.set_color(red=0, green=0, blue=0) of the branch off
AnimRgbOff ==
  /\ Alive /\ apc = "rgb_off"
  /\ rgb' = Color(0, 0, 0)
  /\ wrRgb' = Bump(wrRgb)
  /\ scale' = 0
  /\ apc' = "clear"
  /\ UNCHANGED << running, state, last_known_state, iterator, sleep,
                  base_red, base_green, base_blue, animator, pwm, gpio_low,
                  k, branch, new_value, cr, cg, cb, cpc,
                  nCalls, slotId, slotRead, superseded, takeId, iterId,
                  rendered, wrPwm, faults, warnings, raised, started,
                  stopCalled, stopReturned, redundantStart, take7,
                  hist2, mainv, corev >>

\* a clear that is missing from the else branch
AnimClear_NotAfterWarn ==
  /\ animator = "alive" /\ apc = "clear"
  /\ state' = IF unknownTake THEN state ELSE NoToken
  /\ slotId' = IF unknownTake THEN slotId ELSE 0
  /\ slotRead' = TRUE
  /\ apc' = "if_iterator"
  /\ UNCHANGED << running, last_known_state, iterator, sleep, base_red,
                  base_green, base_blue, animator, pwm, gpio_low, rgb,
                  k, branch, new_value, scale, cr, cg, cb, cpc, nCalls,
                  superseded, takeId, iterId, rendered, wrPwm, wrRgb, faults,
                  warnings, raised, started, stopCalled, stopReturned,
                  redundantStart, take7, hist2, mainv, corev >>

\* self.state = None, at the end of every branch
AnimClear ==
  /\ Alive /\ apc = "clear"
  /\ state' = NoToken
  /\ slotId' = 0
  /\ slotRead' = TRUE
  /\ apc' = "if_iterator"
  /\ UNCHANGED << running, last_known_state, iterator, sleep, base_red,
                  base_green, base_blue, animator, pwm, gpio_low, rgb,
                  k, branch, new_value, scale, cr, cg, cb, cpc, nCalls, superseded, takeId, iterId, rendered,
                  wrPwm, wrRgb, faults, warnings, raised, started,
                  stopCalled, stopReturned, redundantStart, take7,
                  hist2, mainv, corev >>

\* if self.iterator: new_value = next(self.iterator)   else: (idle branch)
AnimIfIterator ==
  /\ Alive /\ apc = "if_iterator"
  /\ IF iterator # NoIterator
     THEN /\ new_value' = NextValue(iterator)
          /\ iterator' = Advance(iterator)
          /\ apc' = "pwm_frame"
     ELSE /\ apc' = "sleep"
          /\ UNCHANGED << new_value, iterator >>
  /\ UNCHANGED << running, state, last_known_state, sleep, base_red,
                  base_green, base_blue, animator, pwm, gpio_low, rgb,
                  k, branch, scale, cr, cg, cb, cpc, history, corev >>

\* a brightness taken over max_pwm: min(self.max_pwm, new_value) / self.max_pwm
AnimPwmFrame_ScaleByMaxPwm ==
  /\ animator = "alive" /\ apc = "pwm_frame"
  /\ pwm' = [ pwm EXCEPT !.duty = new_value ]
  /\ wrPwm' = Bump(wrPwm)
  /\ rendered' = rendered \cup { iterId }
  /\ scale' = (Min(max_pwm, new_value) * max_brightness) \div max_pwm
  /\ apc' = "read_red"
  /\ frameNo' = (frameNo + 1) % Len(TableFrames(iterator.tok))
  /\ UNCHANGED << running, state, last_known_state, iterator, sleep,
                  base_red, base_green, base_blue, animator, gpio_low, rgb,
                  k, branch, new_value, cr, cg, cb, cpc,
                  nCalls, slotId, slotRead, superseded, takeId, iterId,
                  wrRgb, faults, warnings, raised, started, stopCalled,
                  stopReturned, redundantStart, take7,
                  pendingAtStart, unknownCalls, spawned, mainv, corev >>

\* self.pwm.ChangeDutyCycle(new_value);
\* brightness = min(self.max_pwm, new_value) / self.max_brightness
AnimPwmFrame ==
  /\ Alive /\ apc = "pwm_frame"
  /\ pwm' = [ pwm EXCEPT !.duty = new_value ]
  /\ wrPwm' = Bump(wrPwm)
  /\ rendered' = rendered \cup { iterId }
  /\ scale' = Min(max_pwm, new_value)
  /\ apc' = "read_red"
  /\ frameNo' = (frameNo + 1) % Len(TableFrames(iterator.tok))
  /\ UNCHANGED << running, state, last_known_state, iterator, sleep,
                  base_red, base_green, base_blue, animator, gpio_low, rgb,
                  k, branch, new_value, cr, cg, cb, cpc,
                  nCalls, slotId, slotRead, superseded, takeId, iterId,
                  wrRgb, faults, warnings, raised, started, stopCalled,
                  stopReturned, redundantStart, take7,
                  pendingAtStart, unknownCalls, spawned, mainv, corev >>

\* time.sleep(self.sleep) after a frame, time.sleep(0.25) when idle
SleepTime == IF iterator # NoIterator THEN sleep ELSE IdleSleep

AnimSleep ==
  /\ Alive /\ apc = "sleep"
  /\ SleepTime >= 0
  /\ apc' = "while"
  /\ iterAtTake' = NoIterator /\ unknownTake' = FALSE
  /\ UNCHANGED << code, k, branch, new_value, scale, cr, cg, cb, cpc,
                  nCalls, slotId, slotRead, superseded, takeId, iterId,
                  rendered, wrPwm, wrRgb, faults, warnings, raised, started,
                  stopCalled, stopReturned, redundantStart,
                  hist2, mainv, corev >>

\* a driver call of the animator raises: _animate has no try/except, so the
\* exception ends the thread
DriverCalls == { "pwm_static", "rgb_off", "set_color", "pwm_frame" }

AnimDriverFault ==
  /\ Alive /\ apc \in DriverCalls
  /\ faults < MaxFaults
  /\ faults' = faults + 1
  /\ animator' = "dead"
  /\ apc' = "raised"
  /\ k' = 0 /\ new_value' = 0 /\ scale' = 0 /\ cr' = 0 /\ cg' = 0 /\ cb' = 0
  /\ iterAtTake' = NoIterator /\ unknownTake' = FALSE
  /\ UNCHANGED << running, state, last_known_state, iterator, sleep,
                  base_red, base_green, base_blue, pwm, gpio_low, rgb,
                  branch, cpc, nCalls, slotId, slotRead, superseded, takeId,
                  iterId, rendered, wrPwm, wrRgb, warnings, raised, started,
                  stopCalled, stopReturned, redundantStart,
                  hist2, mainv, corev >>

\* -------------------------------------------------------------- specification
Caller ==
  \/ \E t \in InputTokens : SetState(t)
  \/ SetStateRed
  \/ SetStateGreen
  \/ SetStateBlue
  \/ StartPwm
  \/ StartRunning
  \/ StartAnimator
  \/ StopRunning
  \/ StopJoin
  \/ StopPwm
  \/ StopGpio

Animate ==
  \/ AnimWhile
  \/ AnimIfState
  \/ AnimElif
  \/ AnimWarn
  \/ AnimPwmStatic
  \/ AnimSetBaseRed
  \/ AnimSetBaseGreen
  \/ AnimSetBaseBlue
  \/ AnimReadRed
  \/ AnimReadGreen
  \/ AnimReadBlue
  \/ AnimSetColor
  \/ AnimRgbOff
  \/ AnimClear
  \/ AnimIfIterator
  \/ AnimPwmFrame
  \/ AnimSleep

Next == Caller \/ Animate \/ AnimDriverFault

Spec == Init /\ [][Next]_vars

\* the animator runs whenever it can: its thread is scheduled by the
\* interpreter; driver faults and the caller's calls are not forced to happen
FairSpec == Spec /\ WF_vars(Animate)

\* ======================================================================= claims
\* a step in which the animator writes to the PWM driver or the RGB driver
AnimDriverWrite == AnimPwmStatic \/ AnimPwmFrame \/ AnimSetColor \/ AnimRgbOff

\* C1: when set_state(A) is followed by set_state(B), A and B distinct valid
\* tokens, and the animator does not access the pending slot between the two
\* writes, no driver write belonging to the pattern of the call set_state(A)
\* ever occurs.
C1_LastWriteWins == rendered \cap superseded = {}

\* C1 witness: call takeId - 1 was overwritten unread by call takeId, and the
\* pattern of call takeId has been rendered.
C1_Witness == (takeId - 1) \in superseded /\ takeId \in rendered

\* C2: once stop() has returned, the animator thread is not alive and it
\* makes no further write to the PWM driver or the RGB driver.
C2_StoppedThreadSilent ==
  [][ /\ stopReturned' => animator' = "dead"
      /\ stopReturned => ~AnimDriverWrite ]_vars

\* C2 witness: stop() has returned on an engine whose animator was replaying a
\* cyclic pattern and had written frames of it.
C2_Witness ==
  /\ stopReturned
  /\ iterator # NoIterator
  /\ iterId \in rendered
  /\ faults = 0

\* C3: when stop() has returned, the PWM output is off (stopped, or at duty 0)
\* and the colour last written to the RGB driver is (0,0,0).
C3_StopLeavesOutputsOff ==
  stopReturned => /\ (~pwm.on \/ pwm.duty = 0)
                  /\ rgb = Color(0, 0, 0)

\* C4: the animator clears from the pending slot only a token that it has
\* itself resolved: when it executes self.state = None, the slot holds the
\* token of the call it resolved.
C4_ClearOnlyResolved == [][ AnimClear => slotId = takeId ]_vars

\* C5: a set_state(T), T valid, that has returned while the engine runs is
\* followed by a driver write of T's pattern, unless a later set_state or a
\* stop() is called (or a driver write raises, the case of C6).  The case
\* taken is the one where the write can be told from those of the pattern
\* applied before: T differs from the token matched last.
C5_TokenEventuallyRendered ==
  \A i \in 1..MaxCalls :
    ( /\ nCalls = i /\ cpc = "idle"
      /\ last_known_state \in ValidTokens
      /\ last_known_state # branch
      /\ running /\ animator = "alive" /\ ~stopCalled )
    ~> ( i \in rendered \/ nCalls > i \/ stopCalled \/ faults > 0 )

\* C6: a driver write that raises does not end the animation loop: as long as
\* stop() has not been called, the animator thread of a started engine is
\* alive after the fault.
C6_FaultKeepsLoopAlive == (faults > 0 /\ ~stopCalled) => animator = "alive"

\* C7: when the animator takes a token and ends in the else branch while a
\* cyclic pattern is active, the pattern and its cursor are those found at the
\* start of the take: the iterator is unchanged up to the next frame, the next
\* duty written is the frame under that cursor, and the thread is alive.
C7_UnknownKeepsPattern ==
  (unknownTake /\ iterAtTake # NoIterator) =>
    /\ animator = "alive"
    /\ apc \in { "clear", "if_iterator" } => iterator = iterAtTake
    /\ apc \in { "pwm_frame", "read_red", "read_green", "read_blue",
                 "set_color", "sleep" } => iterator = Advance(iterAtTake)
    /\ apc = "pwm_frame" => new_value = NextValue(iterAtTake)

\* C7 witness: after an unknown token, the animator is about to write the
\* frame under a cursor that was in the middle of the cycle.
C7_Witness ==
  /\ unknownTake
  /\ iterAtTake # NoIterator /\ iterAtTake.pos > 0
  /\ apc = "pwm_frame"

\* C8: a start() that follows a start() with no stop() in between is a no-op:
\* none of its steps raises, re-initialises the PWM driver, starts a thread or
\* changes running or the active pattern.
C8_SecondStartIsNoOp ==
  [][ ((redundantStart \/ redundantStart') /\ cpc' # cpc) =>
        /\ raised' = "none"
        /\ UNCHANGED << pwm, running, animator, iterator >> ]_vars

\* C9: stop() on an engine that was never started returns without raising.
C9_StopBeforeStartReturns == ~started => raised # "stop"

\* C10: once the branch of off or on-green has run, it has made exactly one
\* PWM write and one RGB write, the colour written is (0,0,0) for off and
\* (0,190,0) for on-green, no iterator is active, and no further driver write
\* is made until the next match.
StaticApplied ==
  /\ branch \in { "off", "on-green" }
  /\ apc \in { "clear", "if_iterator", "sleep", "while", "if_state", "elif",
               "warn", "returned" }

C10_StaticAppliedOnce ==
  StaticApplied =>
    /\ wrPwm = 1 /\ wrRgb = 1
    /\ iterator = NoIterator
    /\ rgb = IF branch = "off" THEN Color(0, 0, 0) ELSE Color(0, 190, 0)

\* C11: once the branch of on-red has run, whatever tokens came before, the
\* RGB driver has received exactly (255,0,0), in exactly one RGB write, next
\* to exactly one PWM write.
OnRedApplied ==
  /\ branch = "on-red"
  /\ apc \in { "clear", "if_iterator", "sleep", "while", "if_state", "elif",
               "warn", "returned" }

C11_OnRedWritesRed ==
  OnRedApplied => /\ rgb = Color(255, 0, 0)
                  /\ wrPwm = 1 /\ wrRgb = 1

\* ------------------------------------------------- the engine, once started
\* the state in which start() has returned on a new engine
PatternInit ==
  /\ running = TRUE
  /\ state = NoToken
  /\ last_known_state = NoToken
  /\ iterator = NoIterator
  /\ sleep = 0
  /\ base_red = 255 /\ base_green = 0 /\ base_blue = 0
  /\ animator = "alive"
  /\ pwm = [ on |-> TRUE, duty |-> 0 ]
  /\ gpio_low = FALSE
  /\ rgb = Color(0, 0, 0)
  /\ apc = "while" /\ k = 0 /\ branch = NoToken
  /\ new_value = 0 /\ scale = 0 /\ cr = 0 /\ cg = 0 /\ cb = 0
  /\ cpc = "idle"
  /\ nCalls = 0 /\ slotId = 0 /\ slotRead = FALSE /\ superseded = {}
  /\ takeId = 0 /\ iterId = 0 /\ rendered = {}
  /\ wrPwm = 0 /\ wrRgb = 0 /\ faults = 0 /\ warnings = 0
  /\ raised = "none" /\ started = TRUE /\ stopCalled = FALSE
  /\ stopReturned = FALSE /\ redundantStart = FALSE
  /\ iterAtTake = NoIterator /\ unknownTake = FALSE
  /\ pendingAtStart = 0 /\ unknownCalls = 0 /\ frameNo = 0 /\ spawned = 1
  /\ mpc = "none" /\ lastIgnored = "none" /\ cleaned = FALSE
  /\ InitCore

\* every token of the chain, and one outside it
AllTokens == ValidTokens \cup { "bogus" }

PatternNext ==
  \/ \E t \in AllTokens : nCalls < MaxFewCalls /\ SetState(t)
  \/ SetStateRed
  \/ SetStateGreen
  \/ SetStateBlue
  \/ Animate

PatternSpec == PatternInit /\ [][PatternNext]_vars

\* C12: for every cyclic token, each duty the animator writes for a frame is
\* the entry of the token's frame list in the pattern table at the number of
\* frames written since the activation, counted cyclically from the first.
C12_FramesFollowTable ==
  [][ AnimPwmFrame => pwm'.duty = TableFrames(iterator.tok)[frameNo + 1] ]_vars

\* C12 witness: pulse-quick has been replayed once in full and its first
\* frame has been written again.
C12_Witness ==
  /\ iterator.tok = "pulse-quick"
  /\ frameNo = 1 /\ wrPwm = 2
  /\ apc = "read_red"
  /\ pwm.duty = 0

\* C13: when a set_state call returns, the base colour is (255,0,0).
C13_SetStateReturnsRed ==
  [][ SetStateBlue => (base_red' = 255 /\ base_green' = 0 /\ base_blue' = 0) ]_vars

\* C14: a token written by set_state before start() and pending when start()
\* is called is the token the animator's first iteration
\* resolves, and no driver write of another call's pattern precedes it (as
\* long as no further set_state is called).
FirstTakePending ==
  apc \in { "not_started", "while", "if_state", "elif", "warn", "returned" }

C14_PendingTokenKept ==
  (pendingAtStart # 0 /\ nCalls = pendingAtStart) =>
    /\ rendered \subseteq { pendingAtStart }
    /\ takeId = pendingAtStart \/ FirstTakePending

\* C14 witness: two tokens were written before start(), and the animator has
\* resolved the second and written its pattern.
C14_Witness ==
  /\ pendingAtStart = 2 /\ nCalls = 2
  /\ takeId = 2
  /\ rendered = { 2 }

\* the caller's thread goes on with a stop() it has begun whenever it can,
\* and the animator runs whenever it can
StopSteps == StopJoin \/ StopPwm \/ StopGpio

StopNext ==
  \/ \E t \in InputTokens : nCalls < MaxFewCalls /\ SetState(t)
  \/ SetStateRed
  \/ SetStateGreen
  \/ SetStateBlue
  \/ StartPwm
  \/ StartRunning
  \/ StartAnimator
  \/ StopRunning
  \/ StopSteps
  \/ Animate
  \/ AnimDriverFault

StopFairSpec ==
  Init /\ [][StopNext]_vars /\ WF_vars(Animate) /\ WF_vars(StopSteps)

\* C15: a stop() called on a started engine returns: whatever the animator was
\* doing when running was set to false, it leaves the loop, the join
\* completes and stop() returns.
C15_StopTerminates ==
  (cpc = "stop_join" /\ animator # "new") ~> (cpc = "idle" /\ stopReturned)

\* C15 witness: stop() has returned after the animator left the loop in the
\* middle of a cycle.
C15_Witness ==
  /\ stopReturned /\ cpc = "idle"
  /\ apc = "returned"
  /\ iterator # NoIterator /\ iterator.pos > 0

C19_AtMostOneAnimator ==
  /\ spawned <= 1
  /\ (running /\ animator = "alive") => spawned = 1

\* C19 witness: a second start() was made while the thread of the first was
\* alive, and running is true.
C19_Witness ==
  /\ raised = "start" /\ running /\ animator = "alive"
  /\ spawned = 1 /\ ~stopCalled

\* C20: once stop() has returned, no step makes an animation thread alive,
\* starts one, or renders a frame of a pattern.
C20_StoppedIsTerminal ==
  [][ stopReturned =>
        /\ animator' = "dead"
        /\ UNCHANGED << spawned, rendered, wrPwm, wrRgb, rgb, takeId >> ]_vars

\* C20 witness: after stop() returned, start() was called again and set_state
\* left a valid token pending.
C20_Witness ==
  /\ stopReturned /\ running /\ raised = "start" /\ cpc = "idle"
  /\ state \in ValidTokens /\ animator = "dead" /\ pwm.on

\* C21: the animator sleeps only while running is true: once running is false
\* it makes no sleep step.
C21_NoSleepOnceStopped == [][ AnimSleep => running ]_vars

\* C22: the first PWM duty written after a cyclic token was resolved is frame
\* 0 of that token's pattern, whatever the cursor was before.
C22_ResolveResetsCursor ==
  [][ (AnimPwmFrame /\ wrPwm = 0) =>
        (iterator.tok = branch /\ pwm'.duty = Frames(branch)[1]) ]_vars

\* C22 witness: the token of the pattern being replayed, whose cursor had
\* advanced, was resolved again, and the frame written next was frame 0.
C22_Witness ==
  /\ apc = "read_red" /\ wrPwm = 1
  /\ iterAtTake.tok = branch /\ iterAtTake.pos > 0
  /\ iterator = [ tok |-> branch, pos |-> 1 ]
  /\ pwm.duty = Frames(branch)[1]

\* C23: a cyclic frame of intensity v, 0 <= v <= 100, writes v to the PWM
\* driver and the base colour times v/255 to the RGB driver: red is v when the
\* base red read is the default 255, and no channel exceeds 100 (of 255).
C23_FrameScaledBy255 ==
  [][ /\ AnimPwmFrame => (new_value \in 0..max_pwm /\ pwm'.duty = new_value)
      /\ (AnimReadRed /\ iterator # NoIterator /\ base_red = 255) =>
           cr' = new_value * max_brightness
      /\ (AnimSetColor /\ iterator # NoIterator) =>
           /\ rgb' = << cr, cg, cb >>
           /\ \A i \in 1..3 : rgb'[i] <= 100 * max_brightness ]_vars

\* C23 witness: the frame of intensity 100 of pulse-quick has been written
\* with the default base colour.
C23_Witness ==
  /\ apc = "sleep" /\ iterator.tok = "pulse-quick"
  /\ pwm.duty = 100 /\ rgb = << 100 * max_brightness, 0, 0 >>

\* C24: while no start() or stop() call is in progress, running = true
\* implies that the animation thread is alive.
C24_RunningImpliesAlive ==
  (running /\ cpc \in { "idle", "ss_red", "ss_green", "ss_blue" }) =>
    animator = "alive"

\* C25: the three base channels read for a set_color call are those of one
\* base colour, (255,0,0) or (0,190,0), times the brightness of the write.
C25_UnmixedBaseColour ==
  apc = "set_color" =>
    << cr, cg, cb >> \in { << 255 * scale, 0, 0 >>, << 0, 190 * scale, 0 >> }

\* C26: when every set_state call has passed a valid token, no "unsupported
\* state" warning has been logged.
C26_NoWarningForValidTokens == unknownCalls = 0 => warnings = 0

\* --------------------------------------------------- the control process main
\* state_map of main()
PhaseKeys ==
  { "starting", "ready", "listening", "thinking", "stopping", "power-off",
    "error" }

\* a dispatcher that hands the phase word itself to set_state
StateMap_Raw(line) == line

StateMap(line) ==
  CASE line = "starting" -> "pulse-quick"
    [] line = "ready" -> "pulse-slow-dark"
    [] line = "listening" -> "on-green"
    [] line = "thinking" -> "pulse-quick"
    [] line = "stopping" -> "pulse-quick"
    [] line = "power-off" -> "off"
    [] line = "error" -> "blink-3"

\* the tokens main() can hand to set_state
PhaseTokens == { StateMap(line) : line \in PhaseKeys }

\* the lines input() returns in this model: keys for a steady colour, for off,
\* for a blink and for a pulse, the blank line and a line that is no key
Lines == { "listening", "power-off", "error", "thinking", "", "hello" }

\* the lines of the runs that are followed to the exit of the process
ShortLines == { "listening", "power-off", "error", "" }

\* main() after led = LED(args.gpio_pin), about to call led.start()
MainInit == InitLED /\ InitCore /\ mpc = "start"

\* led.start()
MainStart == mpc = "start" /\ ~started /\ StartPwm

\* led.start() has returned (the first start() of an engine does not raise):
\* while True
MainLoop ==
  /\ mpc = "start" /\ started /\ cpc = "idle"
  /\ mpc' = "input"
  /\ UNCHANGED << code, locals, cpc, nCalls, slotId, slotRead, superseded,
                  takeId, iterId, rendered, wrPwm, wrRgb, faults, warnings,
                  raised, started, stopCalled, stopReturned, redundantStart,
                  take7, hist2, lastIgnored, cleaned, corev >>

\* state = input(), a key of state_map: led.set_state(state_map[state])
MainLine(line) ==
  /\ mpc = "input"
  /\ line \in PhaseKeys
  /\ SetState(StateMap(line))

\* state = input(), blank or no key of state_map: continue (after a warning
\* of main's logger for a line that is not blank)
MainIgnore(line) ==
  /\ mpc = "input" /\ cpc = "idle"
  /\ line \notin PhaseKeys
  /\ lastIgnored' = line
  /\ UNCHANGED << code, locals, cpc, nCalls, slotId, slotRead, superseded,
                  takeId, iterId, rendered, wrPwm, wrRgb, faults, warnings,
                  raised, started, stopCalled, stopReturned, redundantStart,
                  take7, hist2, mpc, cleaned, corev >>

\* input() raises EOFError: except EOFError: time.sleep(1)
MainEOF ==
  /\ mpc = "input" /\ cpc = "idle"
  /\ mpc' = "eof_sleep"
  /\ UNCHANGED << code, locals, cpc, nCalls, slotId, slotRead, superseded,
                  takeId, iterId, rendered, wrPwm, wrRgb, faults, warnings,
                  raised, started, stopCalled, stopReturned, redundantStart,
                  take7, hist2, lastIgnored, cleaned, corev >>

\* a reader that gives up at the end of input
MainEOFRetry_Exits ==
  /\ mpc = "eof_sleep"
  /\ mpc' = "exit"
  /\ UNCHANGED << code, locals, cpc, nCalls, slotId, slotRead, superseded,
                  takeId, iterId, rendered, wrPwm, wrRgb, faults, warnings,
                  raised, started, stopCalled, stopReturned, redundantStart,
                  take7, hist2, lastIgnored, cleaned, corev >>

\* the sleep ends and the loop reads again
MainEOFRetry ==
  /\ mpc = "eof_sleep"
  /\ mpc' = "input"
  /\ UNCHANGED << code, locals, cpc, nCalls, slotId, slotRead, superseded,
                  takeId, iterId, rendered, wrPwm, wrRgb, faults, warnings,
                  raised, started, stopCalled, stopReturned, redundantStart,
                  take7, hist2, lastIgnored, cleaned, corev >>

\* KeyboardInterrupt while main() waits in input() or in the sleep:
\* except KeyboardInterrupt: pass, then the finally block
MainInterrupt ==
  /\ mpc \in { "input", "eof_sleep" } /\ cpc = "idle"
  /\ mpc' = "interrupted"
  /\ UNCHANGED << code, locals, cpc, nCalls, slotId, slotRead, superseded,
                  takeId, iterId, rendered, wrPwm, wrRgb, faults, warnings,
                  raised, started, stopCalled, stopReturned, redundantStart,
                  take7, hist2, lastIgnored, cleaned, corev >>

\* finally: led.stop()
MainStop == mpc = "interrupted" /\ ~stopCalled /\ StopRunning

\* GPIO.cleanup() once led.stop() has returned, and the end of main(); an
\* exception raised by led.stop() leaves the finally block before it
MainCleanup ==
  /\ mpc = "interrupted" /\ stopCalled /\ cpc = "idle"
  /\ cleaned' = (raised # "stop")
  /\ mpc' = "exit"
  /\ UNCHANGED << code, locals, cpc, nCalls, slotId, slotRead, superseded,
                  takeId, iterId, rendered, wrPwm, wrRgb, faults, warnings,
                  raised, started, stopCalled, stopReturned, redundantStart,
                  take7, hist2, lastIgnored, corev >>

MainSteps(lines) ==
  \/ MainStart
  \/ StartRunning
  \/ StartAnimator
  \/ MainLoop
  \/ \E line \in lines : MainLine(line)
  \/ \E line \in lines : MainIgnore(line)
  \/ SetStateRed
  \/ SetStateGreen
  \/ SetStateBlue
  \/ MainEOF
  \/ MainEOFRetry
  \/ MainStop
  \/ StopSteps
  \/ MainCleanup

MainNext == MainSteps(Lines) \/ MainInterrupt \/ Animate \/ AnimDriverFault

MainShortNext ==
  MainSteps(ShortLines) \/ MainInterrupt \/ Animate \/ AnimDriverFault

MainSpec == MainInit /\ [][MainNext]_vars

\* the main thread and the animation thread are both scheduled
MainFairSpec ==
  /\ MainInit /\ [][MainShortNext]_vars
  /\ WF_vars(Animate) /\ WF_vars(MainStop \/ StopSteps \/ MainCleanup)

\* C17: the control loop calls set_state only with a token of the phase table,
\* every token of the table is one of the engine's tokens, and a blank or
\* unrecognised line makes no call and leaves the engine as it was
C17_OnlyPhaseTokensReachEngine ==
  [][ /\ \A line \in PhaseKeys : StateMap(line) \in ValidTokens
      /\ nCalls' # nCalls => (state' \in PhaseTokens /\ state' \in ValidTokens)
      /\ lastIgnored' # lastIgnored => UNCHANGED << code, cpc, nCalls >> ]_vars

\* a line was ignored and two phase lines were dispatched
C17_Witness ==
  /\ lastIgnored = "hello" /\ nCalls = 2 /\ mpc = "input"
  /\ last_known_state = "blink-3" /\ rendered = { 1, 2 }

\* C18: end-of-input leaves the engine untouched and the loop is left only by
\* the interrupt; the process exits only after stop() has returned and the
\* device cleanup is done; and an interrupted process does exit that way
C18_EOFRetriesInterruptStops ==
  /\ [][ /\ mpc = "input" /\ mpc' = "eof_sleep" =>
              UNCHANGED << code, cpc, stopCalled >>
         /\ mpc \in { "input", "eof_sleep" } =>
              mpc' \in { "input", "eof_sleep", "interrupted" }
         /\ cleaned' /\ ~cleaned => stopReturned
         /\ mpc' = "exit" => (stopReturned /\ cleaned') ]_vars
  /\ (mpc = "interrupted") ~> (mpc = "exit" /\ stopReturned /\ cleaned)

\* an interrupted process has exited with the engine stopped and cleaned up
C18_Witness ==
  /\ mpc = "exit" /\ cleaned /\ stopReturned /\ animator = "dead"
  /\ nCalls = 1 /\ rendered = { 1 }

\* ----------------------------------------------- main() from its first line
\* main() before led = LED(args.gpio_pin), with led = None
MainBootInit == InitLED /\ InitCore /\ mpc = "construct"

\* led = LED(args.gpio_pin)
MainConstruct ==
  /\ mpc = "construct"
  /\ mpc' = "start"
  /\ UNCHANGED << code, locals, cpc, nCalls, slotId, slotRead, superseded,
                  takeId, iterId, rendered, wrPwm, wrRgb, faults, warnings,
                  raised, started, stopCalled, stopReturned, redundantStart,
                  take7, hist2, lastIgnored, cleaned, corev >>

\* LED(args.gpio_pin) raises (GPIO.setup rejects the pin, or
\* blinkstick.find_first() returns None and set_color is called on it): led
\* stays None, and the bare except logs a warning
MainConstructFails ==
  /\ mpc = "construct"
  /\ mpc' = "except_noled"
  /\ UNCHANGED << code, locals, cpc, nCalls, slotId, slotRead, superseded,
                  takeId, iterId, rendered, wrPwm, wrRgb, faults, warnings,
                  raised, started, stopCalled, stopReturned, redundantStart,
                  take7, hist2, lastIgnored, cleaned, corev >>

\* finally: led.stop() with led = None raises AttributeError, which leaves
\* main() before GPIO.cleanup()
MainFinallyNoLed ==
  /\ mpc = "except_noled"
  /\ raised' = "stop"
  /\ mpc' = "exit"
  /\ UNCHANGED << code, locals, cpc, nCalls, slotId, slotRead, superseded,
                  takeId, iterId, rendered, wrPwm, wrRgb, faults, warnings,
                   started, stopCalled, stopReturned, redundantStart,
                  take7, hist2, lastIgnored, cleaned, corev >>

\* led.start() raises in self.pwm.start(0): the bare except logs a warning and
\* the finally block runs on an engine whose thread was never started
MainStartFails ==
  /\ mpc = "start" /\ ~started /\ cpc = "idle"
  /\ raised' = "start"
  /\ mpc' = "interrupted"
  /\ UNCHANGED << code, locals, cpc, nCalls, slotId, slotRead, superseded,
                  takeId, iterId, rendered, wrPwm, wrRgb, faults, warnings,
                   started, stopCalled, stopReturned, redundantStart,
                  take7, hist2, lastIgnored, cleaned, corev >>

MainBootNext ==
  \/ MainConstruct
  \/ MainConstructFails
  \/ MainFinallyNoLed
  \/ MainStartFails
  \/ MainNext

MainBootSpec == MainBootInit /\ [][MainBootNext]_vars

\* C27: when main() has ended, GPIO.cleanup() has run and the shutdown step
\* led.stop() has raised no error.
C27_CleanupOnEveryExit == mpc = "exit" => (cleaned /\ raised # "stop")

\* ------------------------------------------------ the camera worker: Core
\* the caller is between two calls on Core
CoreCallerFree == kpc = "idle" /\ tpc \in { "idle", "invalid", "no_camera", "returned" }

\* the number given to the thread that the next Thread(...).start() runs
NextWorker == CHOOSE w \in 1..MaxStarts :
                workers[w] = "none" /\ \A v \in 1..(w - 1) : workers[v] # "none"

WorkerAlive(w) == workers[w] \in { "init", "while", "sleep" }

\* start_thread: if not self.running
StartThreadIf ==
  /\ CoreCallerFree
  /\ nStarts < MaxStarts
  /\ nStarts' = nStarts + 1
  /\ coreRaised' = "none"
  /\ kpc' = IF core_running THEN "idle" ELSE "st_running"
  /\ UNCHANGED << code, locals, cpc, history, core_running, main_thread, camera, workers,
                  stopEnded, tlv >>

\* self.running = True
StartThreadRunning ==
  /\ kpc = "st_running"
  /\ core_running' = TRUE
  /\ kpc' = "st_thread"
  /\ UNCHANGED << code, locals, cpc, history, main_thread, camera, workers, nStarts,
                  coreRaised, stopEnded, tlv >>

\* self.main_thread = threading.Thread(target=self.run_loop).start(): the
\* thread runs, and start() returns None, which is what main_thread gets
StartThreadStart ==
  /\ kpc = "st_thread"
  /\ workers' = [ workers EXCEPT ![NextWorker] = "init" ]
  /\ main_thread' = 0
  /\ kpc' = "idle"
  /\ UNCHANGED << code, locals, cpc, history, core_running, camera, nStarts, coreRaised,
                  stopEnded, tlv >>

\* stop_thread: self.running = False
StopThreadRunning ==
  /\ CoreCallerFree
  /\ core_running' = FALSE
  /\ coreRaised' = "none"
  /\ kpc' = "sp_join"
  /\ UNCHANGED << code, locals, cpc, history, main_thread, camera, workers, nStarts,
                  stopEnded, tlv >>

\* self.main_thread.join(): AttributeError when main_thread is None, else it
\* blocks until that thread has ended; then self.main_thread = None
StopThreadJoin ==
  /\ kpc = "sp_join"
  /\ main_thread # 0 => workers[main_thread] = "dead"
  /\ coreRaised' = IF main_thread = 0 THEN "stop_thread" ELSE "none"
  /\ main_thread' = 0
  /\ stopEnded' = (stopEnded \/ nStarts > 0)
  /\ kpc' = "idle"
  /\ UNCHANGED << code, locals, cpc, history, core_running, camera, workers, nStarts, tlv >>

\* run_loop: self.initialise_camera()
RunLoopInit(w) ==
  /\ workers[w] = "init"
  /\ camera' = TRUE
  /\ workers' = [ workers EXCEPT ![w] = "while" ]
  /\ UNCHANGED << code, locals, cpc, history, core_running, main_thread, kpc, nStarts,
                  coreRaised, stopEnded, tlv >>

\* while self.running:
RunLoopWhile(w) ==
  /\ workers[w] = "while"
  /\ workers' = [ workers EXCEPT ![w] = IF core_running THEN "sleep" ELSE "dead" ]
  /\ UNCHANGED << code, locals, cpc, history, core_running, main_thread, camera, kpc, nStarts,
                  coreRaised, stopEnded, tlv >>

\* time.sleep(0.5)
RunLoopSleep(w) ==
  /\ workers[w] = "sleep"
  /\ workers' = [ workers EXCEPT ![w] = "while" ]
  /\ UNCHANGED << code, locals, cpc, history, core_running, main_thread, camera, kpc, nStarts,
                  coreRaised, stopEnded, tlv >>

\* -------------------------------------- TimeLapse.run and Core.take_timelapse
CoreFields == << core_running, main_thread, workers, kpc, nStarts, coreRaised,
                stopEnded >>

\* TimeLapse.run once interval_seconds and length_seconds are computed:
\* if interval_seconds > 0 and length_seconds > 0, the call of take_timelapse,
\* else say("Sorry, invalid ...")
TimeLapseRun(interval, length) ==
  /\ CoreCallerFree /\ tpc = "idle"
  /\ interval_seconds' = interval
  /\ length_seconds' = length
  /\ length0' = length
  /\ tpc' = IF interval > 0 /\ length > 0 THEN "called" ELSE "invalid"
  /\ UNCHANGED << code, locals, cpc, history, CoreFields, camera, captures, completions >>

\* take_timelapse: if self.camera is not None ... else
\* self.say("Camera not initialised.")
TakeTimelapseIfCamera ==
  /\ tpc = "called"
  /\ tpc' = IF camera THEN "capture" ELSE "no_camera"
  /\ UNCHANGED << code, locals, cpc, history, CoreFields, camera, interval_seconds,
                  length_seconds, length0, captures, completions >>

\* for filename in self.camera.capture_continuous(...): one more photo
TakeTimelapseCapture ==
  /\ tpc = "capture"
  /\ captures' = captures + 1
  /\ tpc' = "sleep"
  /\ UNCHANGED << code, locals, cpc, history, CoreFields, camera, interval_seconds,
                  length_seconds, length0, completions >>

\* a loop that goes on while length_seconds is not below zero
TakeTimelapseSleep_BreaksBelowZero ==
  /\ tpc = "sleep"
  /\ length_seconds' = length_seconds - interval_seconds
  /\ tpc' = IF length_seconds - interval_seconds < 0 THEN "say" ELSE "capture"
  /\ UNCHANGED << code, locals, cpc, history, CoreFields, camera, interval_seconds, length0,
                  captures, completions >>

\* time.sleep(interval_seconds); length_seconds = length_seconds -
\* interval_seconds; if length_seconds <= 0: break
TakeTimelapseSleep ==
  /\ tpc = "sleep"
  /\ length_seconds' = length_seconds - interval_seconds
  /\ tpc' = IF length_seconds - interval_seconds <= 0 THEN "say" ELSE "capture"
  /\ UNCHANGED << code, locals, cpc, history, CoreFields, camera, interval_seconds, length0,
                  captures, completions >>

\* self.say("Time lapse is complete."), and take_timelapse returns
TakeTimelapseSay ==
  /\ tpc = "say"
  /\ completions' = completions + 1
  /\ tpc' = "returned"
  /\ UNCHANGED << code, locals, cpc, history, CoreFields, camera, interval_seconds,
                  length_seconds, length0, captures >>

TakeTimelapse ==
  \/ TakeTimelapseIfCamera
  \/ TakeTimelapseCapture
  \/ TakeTimelapseSleep
  \/ TakeTimelapseSay

CoreNext ==
  \/ StartThreadIf
  \/ StartThreadRunning
  \/ StartThreadStart
  \/ StopThreadRunning
  \/ StopThreadJoin
  \/ \E w \in 1..MaxStarts : RunLoopInit(w)
  \/ \E w \in 1..MaxStarts : RunLoopWhile(w)
  \/ \E w \in 1..MaxStarts : RunLoopSleep(w)
  \/ \E interval \in 0..MaxInterval, length \in 0..MaxLength :
       TimeLapseRun(interval, length)
  \/ TakeTimelapse

CoreSpec == Init /\ [][CoreNext]_vars

\* the thread that called take_timelapse is scheduled
CoreFairSpec == CoreSpec /\ WF_vars(TakeTimelapse)

\* C28: start_thread calls with no stop_thread call in between start at most
\* one worker; and once a stop_thread call made after a start_thread has
\* ended, running is false, no worker is alive and the call has not raised.
C28_StopThreadJoinsWorker ==
  /\ ~stopEnded => Cardinality({ w \in 1..MaxStarts : workers[w] # "none" }) <= 1
  /\ (stopEnded /\ kpc = "idle" /\ ~core_running) =>
       /\ coreRaised # "stop_thread"
       /\ \A w \in 1..MaxStarts : ~WorkerAlive(w)

\* ceil(a / b) for b > 0
CeilDiv(a, b) == (a + b - 1) \div b

\* C29: TimeLapse.run calls take_timelapse only with interval_seconds > 0 and
\* length_seconds > 0; the capture loop then ends after exactly
\* ceil(length_seconds / interval_seconds) photos, completion is announced
\* exactly once, and the call returns.
C29_TimelapseTerminates ==
  /\ [](tpc \in { "called", "capture", "sleep", "say", "no_camera", "returned" }
          => (interval_seconds > 0 /\ length0 > 0))
  /\ [](tpc \in { "capture", "sleep", "say" } =>
          (captures <= CeilDiv(length0, interval_seconds) /\ completions = 0))
  /\ [](tpc = "say" => captures = CeilDiv(length0, interval_seconds))
  /\ [](tpc = "returned" =>
          (captures = CeilDiv(length0, interval_seconds) /\ completions = 1))
  /\ (tpc = "called") ~> (tpc \in { "returned", "no_camera" })
  /\ (tpc = "capture") ~> (tpc = "returned")

\* C29 witness: a time lapse of length 3 at interval 2 has returned after two
\* photos.
C29_Witness ==
  /\ tpc = "returned" /\ length0 = 3 /\ interval_seconds = 2
  /\ captures = 2 /\ completions = 1 /\ length_seconds = -1

=============================================================================
